---- MODULE Spec2Model ----
(***************************************************************************)
(* Model of the Proxmox lifecycle code: ProxmoxAPI (proxmox_api.py) and    *)
(* the dynamic providers LXCContainerProvider / VirtualMachineProvider.    *)
(* One client object runs one operation; every remote reply is chosen      *)
(* nondeterministically.                                                   *)
(***************************************************************************)
EXTENDS Integers, Sequences, FiniteSets, TLC

VARIABLES
    op,            \* the operation the client is running
    pc,            \* position inside that operation
    ticket,        \* ProxmoxAPI.ticket is set (truthy)
    csrf_token,    \* ProxmoxAPI.csrf_token is set
    calls,         \* requests put on the wire so far, by kind (the polls of
                   \* a wait primitive are counted in its frame)
    lastEvent,     \* the last request sent or sleep taken
    wait,          \* frame of the _wait_for_lxc_* call that is running or
                   \* has just returned (dropped at the caller's next step)
    attempt,       \* delete_lxc: index of the retry loop
    wait_time,     \* delete_lxc: backoff computed for the current retry
    backoffLog,    \* delete_lxc: the backoff sleeps taken, in order
    delHist,       \* delete_lxc: what the remote answered so far
    result,        \* outcome of the operation: "none", "ok", "raised", "fallback"
    old_props,     \* update: the previously observed descriptor
    new_props,     \* update: the desired descriptor
    update_params, \* update: the changed fields handed to update_lxc/update_vm
    disksTodo,     \* update_lxc: disk slots the resize loop has still to visit
    requests,      \* create, update: the create and PUT requests sent, in order
    outs,          \* create, update: the state returned to the caller
    readBack,      \* create, update: what the status read-back at the end showed
    args,          \* create: the arguments the resource is declared with
    props,         \* create: the properties handed to the provider's create
    prior,         \* update called again: the slots whose changed spec the
                   \* update before failed to apply
    created        \* create called again: the ids of the resources the
                   \* creates before made on the node

updVars ==
    <<old_props, new_props, update_params, disksTodo, requests, outs, readBack,
      prior>>

creVars == <<args, props, created>>

vars == <<op, pc, ticket, csrf_token, calls, lastEvent, wait, attempt,
          wait_time, backoffLog, delHist, result, old_props, new_props,
          update_params, disksTodo, requests, outs, readBack, args, props,
          prior, created>>

----------------------------------------------------------------------------
(* Bounds of the model.                                                    *)

\* largest max_retries a wait primitive is called with on its own
MaxRetriesArg == 3

\* largest disk size, in GB, of the descriptors update is called with
MaxSizeGB == 10

\* the resources a program declares one after the other
MaxResources == 2

----------------------------------------------------------------------------
(* Program constants.                                                      *)

UnlockRetries == 30          \* _wait_for_lxc_unlock default max_retries
StopRetriesGraceful == 60    \* delete_lxc: wait after the stop call
StopRetriesForced == 30      \* delete_lxc: wait after the forced shutdown
StopRetriesRetry == 15       \* delete_lxc: wait inside the retry loop
\* variant: a retry budget one larger than the code's
MoreDeleteRetries == 10 + 1
max_delete_retries == 10
BackoffStep == 3
DefaultRootfsGB == 8         \* LXCContainerArgs: {"rootfs": "local-lvm:8"}
DefaultScsi0GB == 20         \* VirtualMachineArgs: {"scsi0": "local-lvm:20"}
DefaultCores == 1            \* cores or 1
DefaultMemory == 512         \* memory or 512
DefaultSwap == 512           \* swap or 512
DefaultLxcId == 200          \* props.get("vm_id") or 200
DefaultVmId == 100           \* props.get("vm_id") or 100

----------------------------------------------------------------------------
(* Error texts.  The code classifies a failure by the substrings its       *)
(* lowercased text contains; a text is modelled by the set of the three    *)
(* substrings the code looks for that occur in it.                         *)

Markers == {"timeout", "lock", "container is running"}

ErrorMsgs == SUBSET Markers

\* "Failed to authenticate with Proxmox": none of the three substrings
AuthErrMsg == {}

\* _wait_for_lxc_unlock: "timeout" in str(e).lower() or "lock" in str(e).lower()
IsLockOrTimeout(msg) == "timeout" \in msg \/ "lock" \in msg

\* variant: every failure is retried
IsRetryableMut(msg) == TRUE
\* delete_lxc: "container is running" in error_msg or "timeout" in error_msg
\*             or "lock" in error_msg
IsRetryable(msg) ==
    "container is running" \in msg \/ "timeout" \in msg \/ "lock" \in msg

----------------------------------------------------------------------------
(* Remote replies.                                                         *)

Statuses == {"running", "stopped", "unknown"}

\* reply to POST /access/ticket: ticket and CSRF token, a ticket without
\* the CSRF token, or a failure / a body without "data"
AuthReplies == {"good", "noCsrf", "fail"}

\* the ticket request is made only by a client that holds no ticket
AuthChoices == IF ticket THEN {"good"} ELSE AuthReplies

StatusReplies ==
    {[ok |-> TRUE, status |-> s, msg |-> {}] : s \in Statuses}
    \cup {[ok |-> FALSE, status |-> "unknown", msg |-> m] : m \in ErrorMsgs}

PlainReplies ==
    {[ok |-> TRUE, status |-> "unknown", msg |-> {}]}
    \cup {[ok |-> FALSE, status |-> "unknown", msg |-> m] : m \in ErrorMsgs}

NoCalls ==
    [auth |-> 0, get |-> 0, stop |-> 0, shutdown |-> 0,
     delete |-> 0, config |-> 0, resize |-> 0, create |-> 0, start |-> 0]

\* _authenticate: the reply "noCsrf" sets self.ticket and then fails on the
\* missing CSRFPreventionToken key, so it returns False with the ticket kept
Authenticate(a) ==
    [ok |-> (a = "good"),
     ticket |-> (a \in {"good", "noCsrf"}),
     csrf |-> (a = "good")]

\* variant: the request is sent although the authentication failed
MakeRequestAnyway(a, r) ==
    [sent |-> TRUE, authed |-> ~ticket, ok |-> r.ok, status |-> r.status,
     msg |-> r.msg, ticket |-> ticket \/ Authenticate(a).ticket,
     csrf |-> IF ticket THEN csrf_token ELSE Authenticate(a).csrf]
\* _make_request: authenticate when no ticket is held, raise when that
\* fails, otherwise send the request and return its reply or raise its error
MakeRequest(a, r) ==
    IF ~ticket /\ ~Authenticate(a).ok
    THEN [sent |-> FALSE, authed |-> TRUE, ok |-> FALSE, status |-> "unknown",
          msg |-> AuthErrMsg, ticket |-> Authenticate(a).ticket,
          csrf |-> Authenticate(a).csrf]
    ELSE [sent |-> TRUE, authed |-> ~ticket, ok |-> r.ok, status |-> r.status,
          msg |-> r.msg, ticket |-> TRUE,
          csrf |-> IF ticket THEN csrf_token ELSE TRUE]

\* the effect of one _make_request on the client and on the wire
Sent(kind, q) ==
    /\ ticket' = q.ticket
    /\ csrf_token' = q.csrf
    /\ calls' = IF kind = "poll"
                THEN [calls EXCEPT !.auth = @ + (IF q.authed THEN 1 ELSE 0)]
                ELSE [calls EXCEPT !.auth = @ + (IF q.authed THEN 1 ELSE 0),
                                   ![kind] = @ + (IF q.sent THEN 1 ELSE 0)]

\* the event a _make_request leaves as the last one
EventOf(kind, q) == IF q.sent THEN kind ELSE "auth"

----------------------------------------------------------------------------
(* Wait primitives: _wait_for_lxc_unlock and _wait_for_lxc_stop.           *)

NoWait ==
    [kind |-> "none", max_retries |-> 0, attempt |-> 0, reads |-> 0,
     last |-> "none", allAgain |-> TRUE, done |-> FALSE, res |-> FALSE,
     ret |-> "none"]

\* entering a wait primitive: for attempt in range(max_retries)
CallWait(kind, n, ret) ==
    [kind |-> kind, max_retries |-> n, attempt |-> 0, reads |-> 0,
     last |-> "none", allAgain |-> TRUE, done |-> FALSE, res |-> FALSE,
     ret |-> ret]

\* variant: the second wait for unlock is called again after it returned
AfterWaitMut(ret, res) ==
    CASE ret = "D_after_unlock1" -> "D_status"
      [] ret = "D_after_stop60"  -> IF res THEN "D_unlock2" ELSE "D_shutdown"
      [] ret = "D_after_stop30"  -> "D_unlock2"
      [] ret = "D_after_unlock2" -> "D_unlock2"
      [] ret = "D_after_stop15"  -> "D_sleep"
      [] OTHER                   -> "done"
\* variant: the forced shutdown follows the first stop wait in any case
AfterWaitForced(ret, res) ==
    CASE ret = "D_after_unlock1" -> "D_status"
      [] ret = "D_after_stop60"  -> "D_shutdown"
      [] ret = "D_after_stop30"  -> "D_unlock2"
      [] ret = "D_after_unlock2" -> "D_delete"
      [] ret = "D_after_stop15"  -> "D_sleep"
      [] OTHER                   -> "done"
\* variant: delete gives up when the container is still locked
AfterWaitGiveUp(ret, res) ==
    CASE ret = "D_after_unlock1" -> "D_status"
      [] ret = "D_after_stop60"  -> IF res THEN "D_unlock2" ELSE "D_shutdown"
      [] ret = "D_after_stop30"  -> "D_unlock2"
      [] ret = "D_after_unlock2" -> IF res THEN "D_delete" ELSE "done"
      [] ret = "D_after_stop15"  -> "D_sleep"
      [] OTHER                   -> "done"
\* where the caller goes on after a wait primitive returned res
AfterWait(ret, res) ==
    CASE ret = "D_after_unlock1" -> "D_status"
      [] ret = "D_after_stop60"  -> IF res THEN "D_unlock2" ELSE "D_shutdown"
      [] ret = "D_after_stop30"  -> "D_unlock2"
      [] ret = "D_after_unlock2" -> "D_delete"
      [] ret = "D_after_stop15"  -> "D_sleep"
      [] OTHER                   -> "done"

\* what one status read showed: the status of a successful read, or the
\* kind of its failure (a timeout or lock error, or any other error)
Observed(q) ==
    IF q.ok THEN q.status
    ELSE IF q.msg \cap {"timeout", "lock"} # {} THEN "err_locked"
    ELSE "err_other"

\* the history of a wait call: the reads so far, the last one, and whether
\* every read so far was a timeout/lock failure (unlock) or did not report
\* "stopped" (stop)
Recorded(w, q) ==
    [w EXCEPT !.reads = @ + 1,
              !.last = Observed(q),
              !.allAgain = @ /\ IF w.kind = "unlock"
                                THEN Observed(q) = "err_locked"
                                ELSE Observed(q) # "stopped"]

\* variant: a "container is running" failure also counts as locked
UnlockReturnsMut(q) == q.ok \/ ~IsRetryable(q.msg)
\* does this read end _wait_for_lxc_unlock with True: a successful read
\* (line 359), or an error that is neither a timeout nor a lock (line 369)
UnlockReturns(q) == q.ok \/ ~IsLockOrTimeout(q.msg)

\* variant: any status other than "running" counts as stopped
StopReturnsMut(q) == q.ok /\ q.status # "running"
\* does this read end _wait_for_lxc_stop with True (line 388)
StopReturns(q) == q.ok /\ q.status = "stopped"

\* loop condition of "for attempt in range(max_retries)"
WaitLoopRuns == wait.attempt < wait.max_retries

WaitFrame ==
    UNCHANGED <<op, attempt, wait_time, backoffLog, result, updVars, creVars>>

\* one iteration of _wait_for_lxc_unlock
WaitUnlockPoll ==
    /\ pc = "W_unlock"
    /\ WaitLoopRuns
    /\ \E a \in AuthChoices, r \in StatusReplies :
         LET q == MakeRequest(a, r) IN
         /\ Sent("poll", q)
         /\ delHist' = [delHist EXCEPT
                !.allRunning = @ /\ q.ok /\ q.status = "running"]
         /\ IF UnlockReturns(q)
            THEN /\ wait' = [Recorded(wait, q) EXCEPT
                                !.done = TRUE, !.res = TRUE]
                 /\ pc' = AfterWait(wait.ret, TRUE)
                 /\ lastEvent' = EventOf("poll", q)
            ELSE /\ wait' = [Recorded(wait, q) EXCEPT !.attempt = @ + 1]
                 /\ pc' = pc
                 /\ lastEvent' = "sleep"
    /\ WaitFrame

\* one iteration of _wait_for_lxc_stop
WaitStopPoll ==
    /\ pc = "W_stop"
    /\ WaitLoopRuns
    /\ \E a \in AuthChoices, r \in StatusReplies :
         LET q == MakeRequest(a, r) IN
         /\ Sent("poll", q)
         /\ delHist' = [delHist EXCEPT
                !.allRunning = @ /\ q.ok /\ q.status = "running"]
         /\ IF StopReturns(q)
            THEN /\ wait' = [Recorded(wait, q) EXCEPT
                                !.done = TRUE, !.res = TRUE]
                 /\ pc' = AfterWait(wait.ret, TRUE)
                 /\ lastEvent' = EventOf("poll", q)
            ELSE /\ wait' = [Recorded(wait, q) EXCEPT !.attempt = @ + 1]
                 /\ pc' = pc
                 /\ lastEvent' = "sleep"
    /\ WaitFrame

\* the loop of either primitive ran out: return False
WaitExhausted ==
    /\ pc \in {"W_unlock", "W_stop"}
    /\ ~WaitLoopRuns
    /\ wait' = [wait EXCEPT !.done = TRUE, !.res = FALSE]
    /\ pc' = AfterWait(wait.ret, FALSE)
    /\ UNCHANGED <<ticket, csrf_token, calls, lastEvent, delHist>>
    /\ WaitFrame

----------------------------------------------------------------------------
(* ProxmoxAPI.delete_lxc.                                                  *)

\* allRunning: every status read so far succeeded and reported "running";
\* fails: DELETE attempts that failed; allFailsRunning: each of them with
\* "container is running"; lastDel: the last attempt's outcome, where a
\* failure is "retryable" when its text holds one of the three markers;
\* unlocks: the waits for unlock started so far; first: what the status read
\* after the first of them showed; recheck: what the status read after the
\* last failed DELETE attempt showed ("running", or "other" for any other
\* status and for a failed read)
NoHist ==
    [allRunning |-> TRUE, fails |-> 0, allFailsRunning |-> TRUE,
     lastDel |-> "none", unlocks |-> 0, first |-> "none", recheck |-> "none"]

\* the history counts the waits for unlock as 1, 2, more than 2
OneMore(n) == IF n < 3 THEN n + 1 ELSE n

\* what a status read showed, for the history
Seen(q) == IF q.sent /\ q.ok /\ q.status = "running" THEN "running" ELSE "other"

Failed(h, msg) ==
    [h EXCEPT !.recheck = "none",
              !.fails = @ + 1,
              !.allFailsRunning = @ /\ "container is running" \in msg,
              !.lastDel = IF msg \cap Markers # {}
                          THEN "retryable" ELSE "fatal"]

\* get_lxc: the status of the reply, {} (status "unknown") when the read failed
GetStatus(q) == IF q.ok THEN q.status ELSE "unknown"

\* variant: the bound on attempt off by one
RetryAllowedMut(msg, a) == IsRetryable(msg) /\ a < max_delete_retries
\* delete_lxc line 449-451: retry this failure?
RetryAllowed(msg, a) == IsRetryable(msg) /\ a < max_delete_retries - 1

\* variant: a loop of one iteration less
DeleteLoopRunsMut(a) == a < max_delete_retries - 1
\* delete_lxc line 442: for attempt in range(max_delete_retries)
DeleteLoopRuns(a) == a < max_delete_retries

\* variant: a constant backoff
WaitTimeFlat(a) == BackoffStep
\* variant: the backoff computed from attempt instead of attempt + 1
WaitTimeMut(a) == a * BackoffStep
\* delete_lxc line 454: wait_time = (attempt + 1) * 3
WaitTime(a) == (a + 1) * BackoffStep

\* variant: the shutdown is sent again whatever the status read showed
AfterRecheckMut(status) == "D_reshutdown"
\* delete_lxc lines 465-473: shutdown again only if the container is
\* reported running, otherwise straight to the sleep
AfterRecheck(status) ==
    IF status = "running" THEN "D_reshutdown" ELSE "D_sleep"

DelFrame ==
    UNCHANGED <<op, wait_time, backoffLog, result, attempt, updVars, creVars>>

\* the provider's delete builds a client and calls delete_lxc, which first
\* waits for the container to be unlocked
DeleteLxcStart ==
    /\ pc = "idle"
    /\ op' = "delete_lxc"
    /\ wait' = CallWait("unlock", UnlockRetries, "D_after_unlock1")
    /\ pc' = "W_unlock"
    /\ delHist' = [delHist EXCEPT !.unlocks = OneMore(@)]
    /\ UNCHANGED <<ticket, csrf_token, calls, lastEvent, attempt, wait_time,
                   backoffLog, result, updVars, creVars>>

\* lines 410-415: read the status; "running" starts the stop sequence
DeleteReadStatus ==
    /\ pc = "D_status"
    /\ \E a \in AuthChoices, r \in StatusReplies :
         LET q == MakeRequest(a, r) IN
         /\ Sent("get", q)
         /\ lastEvent' = EventOf("get", q)
         /\ IF GetStatus(q) = "running"
            THEN /\ pc' = "D_stop"
                 /\ wait' = NoWait
                 /\ delHist' = [delHist EXCEPT
                        !.allRunning = @ /\ q.ok /\ q.status = "running",
                        !.first = Seen(q)]
            ELSE /\ pc' = "W_unlock"
                 /\ wait' = CallWait("unlock", UnlockRetries, "D_after_unlock2")
                 /\ delHist' = [delHist EXCEPT
                        !.allRunning = @ /\ q.ok /\ q.status = "running",
                        !.first = Seen(q),
                        !.unlocks = OneMore(@)]
    /\ DelFrame

\* lines 418-425: the stop call (a failure is logged), then wait up to 60
DeleteStop ==
    /\ pc = "D_stop"
    /\ \E a \in AuthChoices, r \in PlainReplies :
         LET q == MakeRequest(a, r) IN
         /\ Sent("stop", q)
         /\ lastEvent' = EventOf("stop", q)
    /\ wait' = CallWait("stop", StopRetriesGraceful, "D_after_stop60")
    /\ pc' = "W_stop"
    /\ UNCHANGED delHist
    /\ DelFrame

\* lines 428-432: forced shutdown; the second wait only if the call succeeded
DeleteShutdown ==
    /\ pc = "D_shutdown"
    /\ \E a \in AuthChoices, r \in PlainReplies :
         LET q == MakeRequest(a, r) IN
         /\ Sent("shutdown", q)
         /\ lastEvent' = EventOf("shutdown", q)
         /\ IF q.ok
            THEN /\ wait' = CallWait("stop", StopRetriesForced, "D_after_stop30")
                 /\ pc' = "W_stop"
            ELSE /\ wait' = NoWait
                 /\ pc' = "D_unlock2"
    /\ UNCHANGED delHist
    /\ DelFrame

\* line 438: wait again for unlock before deletion
DeleteUnlockAgain ==
    /\ pc = "D_unlock2"
    /\ wait' = CallWait("unlock", UnlockRetries, "D_after_unlock2")
    /\ pc' = "W_unlock"
    /\ delHist' = [delHist EXCEPT !.unlocks = OneMore(@)]
    /\ UNCHANGED <<ticket, csrf_token, calls, lastEvent>>
    /\ DelFrame

\* lines 442-451, 475-477: one DELETE attempt of the retry loop
DeleteAttempt ==
    /\ pc = "D_delete"
    /\ \E a \in AuthChoices, r \in PlainReplies :
         LET q == MakeRequest(a, r) IN
         /\ Sent("delete", q)
         /\ lastEvent' = EventOf("delete", q)
         /\ IF q.ok
            THEN /\ result' = "ok"
                 /\ pc' = "done"
                 /\ wait_time' = wait_time
                 /\ delHist' = [delHist EXCEPT !.lastDel = "ok",
                                                !.recheck = "none"]
            ELSE IF RetryAllowed(q.msg, attempt)
            THEN /\ result' = result
                 /\ pc' = "D_recheck"
                 /\ wait_time' = WaitTime(attempt)
                 /\ delHist' = Failed(delHist, q.msg)
            ELSE /\ result' = "raised"
                 /\ pc' = "done"
                 /\ wait_time' = wait_time
                 /\ delHist' = Failed(delHist, q.msg)
    /\ wait' = NoWait
    /\ UNCHANGED <<op, attempt, backoffLog, updVars, creVars>>

\* lines 460-465: status check before the retry
DeleteRecheck ==
    /\ pc = "D_recheck"
    /\ \E a \in AuthChoices, r \in StatusReplies :
         LET q == MakeRequest(a, r) IN
         /\ Sent("get", q)
         /\ lastEvent' = EventOf("get", q)
         /\ delHist' = [delHist EXCEPT
                !.allRunning = @ /\ q.ok /\ q.status = "running",
                !.recheck = Seen(q)]
         /\ pc' = AfterRecheck(GetStatus(q))
    /\ wait' = NoWait
    /\ DelFrame

\* lines 468-471: shutdown again and a short wait; any failure is swallowed
DeleteReshutdown ==
    /\ pc = "D_reshutdown"
    /\ \E a \in AuthChoices, r \in PlainReplies :
         LET q == MakeRequest(a, r) IN
         /\ Sent("shutdown", q)
         /\ lastEvent' = EventOf("shutdown", q)
         /\ IF q.ok
            THEN /\ wait' = CallWait("stop", StopRetriesRetry, "D_after_stop15")
                 /\ pc' = "W_stop"
            ELSE /\ wait' = NoWait
                 /\ pc' = "D_sleep"
    /\ UNCHANGED delHist
    /\ DelFrame

\* lines 473-474, 479-480: time.sleep(wait_time); continue.  When the loop
\* has no iteration left, control reaches the fallback return
DeleteBackoff ==
    /\ pc = "D_sleep"
    /\ backoffLog' = Append(backoffLog, wait_time)
    /\ lastEvent' = "backoff"
    /\ attempt' = attempt + 1
    /\ IF DeleteLoopRuns(attempt + 1)
       THEN pc' = "D_delete" /\ result' = result
       ELSE pc' = "done" /\ result' = "fallback"
    /\ wait' = NoWait
    /\ UNCHANGED <<op, ticket, csrf_token, calls, wait_time, delHist, updVars,
                   creVars>>

----------------------------------------------------------------------------
(* The wait primitives called on their own.                                *)

WaitAloneStart ==
    /\ pc = "idle"
    /\ \E k \in {"unlock", "stop"}, n \in 0..MaxRetriesArg :
         /\ op' = IF k = "unlock" THEN "wait_unlock" ELSE "wait_stop"
         /\ wait' = CallWait(k, n, "return")
         /\ pc' = IF k = "unlock" THEN "W_unlock" ELSE "W_stop"
    /\ UNCHANGED <<ticket, csrf_token, calls, lastEvent, attempt, wait_time,
                   backoffLog, delHist, result, updVars, creVars>>

----------------------------------------------------------------------------
(* Strings.  A disk spec is a sequence of characters, so that split,       *)
(* isdigit, int and the formatting of the size are computed as the code    *)
(* computes them.                                                          *)

Digit == <<"0", "1", "2", "3", "4", "5", "6", "7", "8", "9">>

IsDigitChar(c) == \E i \in 1..10 : Digit[i] = c

DigitValue(c) == (CHOOSE i \in 1..10 : Digit[i] = c) - 1

\* str.isdigit(): at least one character, all of them digits
IsDigitStr(s) == Len(s) > 0 /\ \A i \in 1..Len(s) : IsDigitChar(s[i])

\* int(s) of a string of digits
RECURSIVE ParseInt(_)
ParseInt(s) ==
    IF s = <<>> THEN 0
    ELSE ParseInt(SubSeq(s, 1, Len(s) - 1)) * 10 + DigitValue(s[Len(s)])

\* str(n)
RECURSIVE Decimal(_)
Decimal(n) ==
    IF n < 10 THEN <<Digit[n + 1]>>
    ELSE Decimal(n \div 10) \o <<Digit[(n % 10) + 1]>>

\* position of the first ":" of s, 0 when there is none
FirstColon(s) ==
    IF \E i \in 1..Len(s) : s[i] = ":"
    THEN CHOOSE i \in 1..Len(s) :
             s[i] = ":" /\ \A j \in 1..(i - 1) : s[j] # ":"
    ELSE 0

----------------------------------------------------------------------------
(* Descriptors.  A props dictionary is a function from the keys it holds   *)
(* to their values; a key whose value is None is not in the dictionary.    *)

EmptyDict == [k \in {} |-> k]

\* props.get(key): <<>> stands for None
Get(d, key) == IF key \in DOMAIN d THEN <<d[key]>> ELSE <<>>

\* the spec of a slot in a descriptor, <<>> when the descriptor has none
SlotSpec(desc, slot) ==
    IF "disks" \in DOMAIN desc THEN Get(desc["disks"], slot) ELSE <<>>

SetKey(d, key, value) == (key :> value) @@ d

DelKey(d, key) == [k \in DOMAIN d \ {key} |-> d[k]]

\* "local-lvm"
Storage == <<"l", "o", "c", "a", "l", "-", "l", "v", "m">>

DiskSpec(n) == Storage \o <<":">> \o Decimal(n)

\* the order in which the loops visit the entries of a dictionary
KeyOrder == <<"rootfs", "mp0", "scsi0", "net0">>

RECURSIVE KeysIn(_, _)
KeysIn(dict, order) ==
    IF order = <<>> THEN <<>>
    ELSE IF Head(order) \in DOMAIN dict
         THEN <<Head(order)>> \o KeysIn(dict, Tail(order))
         ELSE KeysIn(dict, Tail(order))

DiskSlots == {"rootfs", "mp0", "scsi0"}

\* the mutable fields the providers compare, in the order of the code
LxcFields ==
    <<"cores", "memory", "swap", "hostname", "disks", "networks", "features",
      "startup", "onboot">>

VmFields == <<"cores", "memory", "name", "disks", "networks">>

Range(seq) == {seq[i] : i \in 1..Len(seq)}

----------------------------------------------------------------------------
(* Input descriptors of the model.                                         *)

\* disk sizes, in GB, of the well-formed specs: 0 and DefaultRootfsGB..MaxSizeGB
Sizes == {0} \cup (DefaultRootfsGB..MaxSizeGB)

RootfsSpecs ==
    {DiskSpec(n) : n \in Sizes}
    \cup {DiskSpec(DefaultRootfsGB) \o <<"G">>,          \* "local-lvm:8G"
          Storage,                                       \* no colon
          Storage \o <<":", "0">> \o Decimal(MaxSizeGB)} \* leading zero

Mp0Specs == {DiskSpec(n) : n \in DefaultRootfsGB..(DefaultRootfsGB + 1)}

LxcDiskMaps ==
    {EmptyDict}
    \cup {("rootfs" :> r) : r \in RootfsSpecs}
    \cup {("mp0" :> m) : m \in Mp0Specs}
    \cup {("rootfs" :> r) @@ ("mp0" :> m) : r \in RootfsSpecs, m \in Mp0Specs}

VmDiskMaps ==
    {EmptyDict} \cup {("scsi0" :> DiskSpec(n)) : n \in Sizes \ {0}}

LxcBase ==
    [vm_id |-> 215, node |-> "pve", cores |-> 2, memory |-> 2024, swap |-> 512,
     hostname |-> "web", disks |-> ("rootfs" :> DiskSpec(DefaultRootfsGB)),
     networks |-> ("net0" :> "ip=dhcp"),
     features |-> <<<<"nesting", "1">>>>, unprivileged |-> TRUE]

LxcBaseTwoDisks ==
    [vm_id |-> 215, node |-> "pve", cores |-> 2, memory |-> 2024, swap |-> 512,
     hostname |-> "web",
     disks |-> ("rootfs" :> DiskSpec(DefaultRootfsGB))
               @@ ("mp0" :> DiskSpec(DefaultRootfsGB)),
     networks |-> ("net0" :> "ip=dhcp"),
     features |-> <<>>, startup |-> "order=1", onboot |-> TRUE,
     unprivileged |-> TRUE]

VmBase ==
    [vm_id |-> 100, node |-> "pve", cores |-> 2, memory |-> 2024,
     name |-> "vm", disks |-> ("scsi0" :> DiskSpec(DefaultRootfsGB)),
     networks |-> ("net0" :> "virtio")]

\* a change of one non-disk field: <<key, TRUE, value>> sets it,
\* <<key, FALSE, 0>> removes it (None)
LxcChanges ==
    {<<"cores", TRUE, 3>>, <<"memory", TRUE, 512>>, <<"swap", TRUE, 0>>,
     <<"hostname", TRUE, "db">>, <<"hostname", FALSE, 0>>,
     <<"networks", TRUE, ("net0" :> "ip=static")>>,
     <<"networks", TRUE, EmptyDict>>,
     <<"features", TRUE, <<>> >>,
     <<"features", TRUE, <<<<"nesting", "1">>, <<"keyctl", "1">>>> >>,
     <<"startup", TRUE, "order=2">>, <<"startup", FALSE, 0>>,
     <<"onboot", TRUE, FALSE>>, <<"onboot", TRUE, TRUE>>,
     <<"onboot", FALSE, 0>>}

VmChanges ==
    {<<"cores", TRUE, 3>>, <<"memory", TRUE, 512>>,
     <<"name", TRUE, "vm2">>, <<"name", FALSE, 0>>,
     <<"networks", TRUE, ("net0" :> "e1000")>>,
     <<"networks", TRUE, EmptyDict>>}

\* a program that now names another id or another node for the resource
IdentityChanges ==
    {<<"vm_id", TRUE, 216>>, <<"node", TRUE, "pve2">>, <<"cores", TRUE, 3>>}

Apply(desc, c) ==
    IF c[2] THEN SetKey(desc, c[1], c[3]) ELSE DelKey(desc, c[1])

\* props with at most two non-disk fields changed and any disks of diskMaps
Variants(desc, changes, diskMaps) ==
    LET one == {desc} \cup {Apply(desc, c) : c \in changes}
        two == one \cup {Apply(Apply(desc, c), d) : c \in changes, d \in changes}
    IN {SetKey(p, "disks", dm) : p \in two, dm \in diskMaps}

\* the (old, new) pairs update is called with: a base descriptor against
\* each of its variants, and each variant against itself
LxcPairs ==
    LET olds == {LxcBase, LxcBaseTwoDisks}
    IN UNION {{<<o, n>> : n \in Variants(o, LxcChanges, LxcDiskMaps)} :
                 o \in olds}
       \cup {<<n, n>> : n \in Variants(LxcBase, LxcChanges, LxcDiskMaps)}
       \cup {<<LxcBase, n>> :
                n \in Variants(LxcBase, IdentityChanges, {LxcBase["disks"]})}

VmPairs ==
    {<<VmBase, n>> : n \in Variants(VmBase, VmChanges, VmDiskMaps)}
    \cup {<<n, n>> : n \in Variants(VmBase, VmChanges, VmDiskMaps)}
    \cup {<<VmBase, n>> :
             n \in Variants(VmBase, IdentityChanges, {VmBase["disks"]})}

----------------------------------------------------------------------------
(* LXCContainerProvider.update / VirtualMachineProvider.update and         *)
(* ProxmoxAPI.update_lxc / update_vm / _resize_lxc_disk.                   *)

\* variant: every field new_props holds counts as changed
ChangedMut(old, new, fields) ==
    {f \in Range(fields) : Get(new, f) # <<>>}
\* the fields with new_props.get(f) != old_props.get(f)
Changed(old, new, fields) ==
    {f \in Range(fields) : Get(new, f) # Get(old, f)}

\* update_params[f] = new_props[f] raises KeyError when new_props lacks f
RaisesKeyError(old, new, fields) ==
    \E f \in Changed(old, new, fields) : f \notin DOMAIN new

\* variant: memory is handed on whether or not it changed
UpdateParamsMut(old, new, fields) ==
    [f \in (Changed(old, new, fields) \cup {"memory"}) \cap DOMAIN new |-> new[f]]
\* proxmox_lxc.py lines 172-190, proxmox_vm_qemu.py lines 140-150
UpdateParams(old, new, fields) ==
    [f \in Changed(old, new, fields) |-> new[f]]

\* ",".join([f"{k}={v}" for k, v in features.items()])
RECURSIVE FeaturesStr(_)
FeaturesStr(features) ==
    IF features = <<>> THEN <<>>
    ELSE <<Head(features)[1], "=", Head(features)[2]>>
         \o (IF Tail(features) = <<>> THEN <<>> ELSE <<",">>)
         \o FeaturesStr(Tail(features))

Only(params, keys) == [k \in DOMAIN params \cap keys |-> params[k]]

\* update_lxc lines 290-330: the body of the config request
LxcParams(params) ==
    Only(params, {"cores", "memory", "swap", "hostname", "startup"})
    @@ (IF "networks" \in DOMAIN params THEN params["networks"] ELSE EmptyDict)
    @@ (IF "features" \in DOMAIN params /\ params["features"] # <<>>
        THEN ("features" :> FeaturesStr(params["features"])) ELSE EmptyDict)
    @@ (IF "onboot" \in DOMAIN params
        THEN ("onboot" :> IF params["onboot"] THEN 1 ELSE 0) ELSE EmptyDict)

\* update_vm lines 146-162: the body of the config request
VmParams(params) ==
    Only(params, {"cores", "memory", "name"})
    @@ (IF "disks" \in DOMAIN params THEN params["disks"] ELSE EmptyDict)
    @@ (IF "networks" \in DOMAIN params THEN params["networks"] ELSE EmptyDict)

\* _resize_lxc_disk lines 256-276: the resize request for a disk spec, as a
\* sequence of one request, or <<>> when the spec is turned down
ResizeParams(disk_name, disk_config) ==
    LET colon == FirstColon(disk_config)
        size_part == SubSeq(disk_config, colon + 1, Len(disk_config))
    IN IF disk_config = <<>> \/ colon = 0 \/ ~IsDigitStr(size_part)
       THEN <<>>
       ELSE <<[disk |-> disk_name,
               size |-> Decimal(ParseInt(size_part)) \o <<"G">>]>>

\* update_lxc line 301-303: the slots the resize loop visits
ResizeSlots(params) ==
    IF "disks" \in DOMAIN params THEN KeysIn(params["disks"], KeyOrder)
    ELSE <<>>

\* variant: a failed resize ends the loop over the slots
ResizeLoopNextMut(ok, rest) ==
    IF ~ok \/ rest = <<>> THEN "U_config" ELSE "U_resize"
\* update_lxc lines 303-308: after a slot the loop goes on with the next
\* one, whether or not the resize raised; after the last comes the config
ResizeLoopNext(ok, rest) ==
    IF rest = <<>> THEN "U_config" ELSE "U_resize"

\* variant: a failed status read is raised to the caller
ReadBackMut(q) ==
    [result |-> IF q.ok THEN "ok" ELSE "raised",
     status |-> IF q.ok THEN q.status ELSE "unknown"]
\* get_lxc / get_vm and the provider's lxc_info.get("status", "unknown"):
\* a failed read is logged and returns {}, and the provider returns normally
ReadBack(q) ==
    [result |-> "ok", status |-> GetStatus(q)]

UpdFrame ==
    UNCHANGED <<op, wait, attempt, wait_time, backoffLog, delHist,
                old_props, new_props, update_params, creVars, prior>>

\* the provider's update: compare the fields, then call update_lxc /
\* update_vm if any differs (lines 172-193 / 140-153)
UpdateDiff(name, old, new, fields) ==
    /\ op' = name
    /\ old_props' = old
    /\ new_props' = new
    /\ IF RaisesKeyError(old, new, fields)
       THEN /\ update_params' = EmptyDict
            /\ disksTodo' = <<>>
            /\ pc' = "done"
            /\ result' = "raised"
       ELSE /\ update_params' = UpdateParams(old, new, fields)
            /\ disksTodo' = IF name = "update_lxc"
                            THEN ResizeSlots(update_params') ELSE <<>>
            /\ pc' = IF DOMAIN update_params' = {} THEN "U_status"
                     ELSE IF name = "update_vm" THEN "V_config"
                     ELSE IF disksTodo' # <<>> THEN "U_resize"
                     ELSE "U_config"
            /\ result' = "none"

UpdateEnter(name, old, new, fields) ==
    /\ UpdateDiff(name, old, new, fields)
    /\ UNCHANGED <<ticket, csrf_token, calls, lastEvent, wait, attempt,
                   wait_time, backoffLog, delHist, requests, outs, readBack,
                   creVars, prior>>

UpdateLxcStart ==
    /\ pc = "idle"
    /\ \E pair \in LxcPairs : UpdateEnter("update_lxc", pair[1], pair[2], LxcFields)

UpdateVmStart ==
    /\ pc = "idle"
    /\ \E pair \in VmPairs : UpdateEnter("update_vm", pair[1], pair[2], VmFields)

\* the engine stored the state the update returned and, the program being
\* the same, calls update once more: old is that state, new the same
\* desired descriptor, the client a new ProxmoxAPI object. Taken after an
\* update that returned although a resize of a changed slot had failed.
UpdateAgain ==
    /\ pc = "done"
    /\ op = "update_lxc"
    /\ result = "ok"
    /\ prior = {}
    /\ LET lost == {requests[i].body.disk :
                       i \in {j \in 1..Len(requests) :
                                /\ requests[j].kind = "resize"
                                /\ ~requests[j].ok
                                /\ SlotSpec(old_props, requests[j].body.disk)
                                   # SlotSpec(new_props, requests[j].body.disk)}}
       IN /\ lost # {}
          /\ prior' = lost
    /\ UpdateDiff("update_lxc", outs, new_props, LxcFields)
    /\ ticket' = FALSE
    /\ csrf_token' = FALSE
    /\ calls' = NoCalls
    /\ lastEvent' = "none"
    /\ requests' = <<>>
    /\ outs' = EmptyDict
    /\ readBack' = "none"
    /\ UNCHANGED <<wait, attempt, wait_time, backoffLog, delHist, creVars>>

\* update_lxc lines 303-308: one slot of the resize loop; a failure of the
\* resize request is logged and the loop goes on
UpdateResizeDisk ==
    /\ pc = "U_resize"
    /\ disksTodo # <<>>
    /\ LET disk_name == Head(disksTodo)
           put == ResizeParams(disk_name, update_params["disks"][disk_name])
       IN IF put = <<>>
          THEN /\ pc' = ResizeLoopNext(TRUE, Tail(disksTodo))
               /\ UNCHANGED <<ticket, csrf_token, calls, lastEvent, requests>>
          ELSE \E a \in AuthChoices, r \in PlainReplies :
                 LET q == MakeRequest(a, r) IN
                 /\ Sent("resize", q)
                 /\ lastEvent' = EventOf("resize", q)
                 /\ requests' =
                        IF q.sent
                        THEN Append(requests,
                                    [kind |-> "resize", body |-> put[1],
                                     ok |-> q.ok])
                        ELSE requests
                 /\ pc' = ResizeLoopNext(q.ok, Tail(disksTodo))
    /\ disksTodo' = Tail(disksTodo)
    /\ UNCHANGED <<result, outs, readBack>>
    /\ UpdFrame

\* update_lxc lines 335-341: the config request, skipped when the body is
\* empty; its failure is raised to the caller
UpdateLxcConfig ==
    /\ pc = "U_config"
    /\ LET lxc_params == LxcParams(update_params)
       IN IF DOMAIN lxc_params = {}
          THEN /\ pc' = "U_status"
               /\ UNCHANGED <<ticket, csrf_token, calls, lastEvent, requests,
                              result>>
          ELSE \E a \in AuthChoices, r \in PlainReplies :
                 LET q == MakeRequest(a, r) IN
                 /\ Sent("config", q)
                 /\ lastEvent' = EventOf("config", q)
                 /\ requests' =
                        IF q.sent
                        THEN Append(requests,
                                    [kind |-> "config", body |-> lxc_params,
                                     ok |-> q.ok])
                        ELSE requests
                 /\ pc' = IF q.ok THEN "U_status" ELSE "done"
                 /\ result' = IF q.ok THEN result ELSE "raised"
    /\ UNCHANGED <<disksTodo, outs, readBack>>
    /\ UpdFrame

\* update_vm lines 164-167: the config request, always sent
UpdateVmConfig ==
    /\ pc = "V_config"
    /\ LET vm_params == VmParams(update_params)
       IN \E a \in AuthChoices, r \in PlainReplies :
            LET q == MakeRequest(a, r) IN
            /\ Sent("config", q)
            /\ lastEvent' = EventOf("config", q)
            /\ requests' =
                   IF q.sent
                   THEN Append(requests,
                               [kind |-> "config", body |-> vm_params,
                                ok |-> q.ok])
                   ELSE requests
            /\ pc' = IF q.ok THEN "U_status" ELSE "done"
            /\ result' = IF q.ok THEN result ELSE "raised"
    /\ UNCHANGED <<disksTodo, outs, readBack>>
    /\ UpdFrame

\* the provider's update, lines 195-203 / 155-163: read the status back
\* (get_lxc / get_vm), merge new_props over old_props and return
UpdateReadStatus ==
    /\ pc = "U_status"
    /\ \E a \in AuthChoices, r \in StatusReplies :
         LET q == MakeRequest(a, r) IN
         /\ Sent("get", q)
         /\ lastEvent' = EventOf("get", q)
         /\ readBack' = IF q.sent /\ q.ok THEN q.status ELSE "failed"
         /\ result' = ReadBack(q).result
         /\ outs' = IF ReadBack(q).result = "ok"
                    THEN ("status" :> ReadBack(q).status)
                         @@ new_props @@ old_props
                    ELSE outs
    /\ pc' = "done"
    /\ UNCHANGED <<disksTodo, requests>>
    /\ UpdFrame

----------------------------------------------------------------------------
(* Resource arguments: LXCContainerArgs / VirtualMachineArgs, and the      *)
(* props that LXCContainer.__init__ / VirtualMachine.__init__ hand to the  *)
(* provider.  An argument the caller leaves out (None) is not a key.       *)

\* d.get(key, dflt)
Default(d, key, dflt) == IF key \in DOMAIN d THEN d[key] ELSE dflt

\* the entry of an optional argument, dropped when it is None
Opt(key, d) == IF key \in DOMAIN d THEN (key :> d[key]) ELSE EmptyDict

\* "cores or 1": the default replaces None and 0 alike
IntOr(d, key, dflt) ==
    IF key \in DOMAIN d /\ d[key] # 0 THEN d[key] ELSE dflt

\* disk_size.replace("G", "").replace("g", "")
StripG(s) == SelectSeq(s, LAMBDA c : c \notin {"G", "g"})

DefaultLxcNet == "name=eth0,bridge=vmbr0,ip=dhcp"

DefaultVmNet == "virtio,bridge=vmbr0"

\* variant: the legacy disk_size wins over disks, and no default disk
DisksArgMut(a, slot, dfltGB) ==
    IF "disk_size" \in DOMAIN a
    THEN (slot :> Storage \o <<":">> \o StripG(a["disk_size"]))
    ELSE Default(a, "disks", EmptyDict)
\* proxmox_lxc.py lines 49-58, proxmox_vm_qemu.py lines 43-52
DisksArg(a, slot, dfltGB) ==
    IF "disks" \in DOMAIN a THEN a["disks"]
    ELSE IF "disk_size" \in DOMAIN a
    THEN (slot :> Storage \o <<":">> \o StripG(a["disk_size"]))
    ELSE (slot :> DiskSpec(dfltGB))

\* proxmox_lxc.py lines 61-68, proxmox_vm_qemu.py lines 55-62
NetworksArg(a, dflt) ==
    IF "networks" \in DOMAIN a THEN a["networks"]
    ELSE IF "network" \in DOMAIN a THEN ("net0" :> a["network"])
    ELSE ("net0" :> dflt)

\* the proxmox:* settings read from the stack configuration
ConfigProps ==
    [proxmox_endpoint |-> "https://pve:8006/api2/json",
     proxmox_username |-> "root@pam", proxmox_password |-> "secret",
     proxmox_node |-> "pve", proxmox_insecure |-> FALSE]

\* LXCContainerArgs.__init__ followed by LXCContainer.__init__, which drops
\* the None values and adds the configuration
LxcProps(a) ==
    ("node" :> a["node"])
    @@ Opt("vm_id", a) @@ Opt("hostname", a) @@ Opt("template", a)
    @@ ("cores" :> IntOr(a, "cores", DefaultCores))
    @@ ("memory" :> IntOr(a, "memory", DefaultMemory))
    @@ ("swap" :> IntOr(a, "swap", DefaultSwap))
    @@ ("disks" :> DisksArg(a, "rootfs", DefaultRootfsGB))
    @@ ("networks" :> NetworksArg(a, DefaultLxcNet))
    @@ Opt("ostemplate", a) @@ Opt("password", a) @@ Opt("ssh_public_keys", a)
    @@ ("unprivileged" :> Default(a, "unprivileged", TRUE))
    @@ ("features" :> Default(a, "features", <<>>))
    @@ Opt("startup", a) @@ Opt("onboot", a)
    @@ ("start_on_create" :> Default(a, "start_on_create", TRUE))
    @@ ConfigProps

\* VirtualMachineArgs.__init__ followed by VirtualMachine.__init__
VmProps(a) ==
    ("node" :> a["node"])
    @@ Opt("vm_id", a) @@ Opt("name", a) @@ Opt("template", a)
    @@ ("cores" :> IntOr(a, "cores", DefaultCores))
    @@ ("memory" :> IntOr(a, "memory", DefaultMemory))
    @@ ("disks" :> DisksArg(a, "scsi0", DefaultScsi0GB))
    @@ ("networks" :> NetworksArg(a, DefaultVmNet))
    @@ Opt("ssh_keys", a) @@ Opt("ip_config", a) @@ Opt("user", a)
    @@ Opt("password", a)
    @@ ConfigProps

\* the settings of single arguments the model declares resources with
LxcArgChoices ==
    {<<"vm_id", 215>>, <<"hostname", "web">>, <<"node", "pve2">>,
     <<"cores", 0>>, <<"cores", 4>>, <<"memory", 1024>>, <<"swap", 0>>,
     <<"disks", ("rootfs" :> DiskSpec(DefaultRootfsGB + 1))>>,
     <<"disks", EmptyDict>>,
     <<"disk_size", <<"1", "0", "G">> >>,
     <<"networks", ("net0" :> "name=eth0,ip=static")>>,
     <<"networks", EmptyDict>>,
     <<"network", "name=eth1,bridge=vmbr1">>,
     <<"ostemplate", "local:vztmpl/debian.tar.zst">>,
     <<"password", "pw">>,
     <<"unprivileged", FALSE>>,
     <<"features", <<<<"nesting", "1">>>> >>,
     <<"startup", "order=1">>,
     <<"onboot", TRUE>>, <<"onboot", FALSE>>,
     <<"start_on_create", TRUE>>, <<"start_on_create", FALSE>>}

VmArgChoices ==
    {<<"vm_id", 101>>, <<"name", "vm">>, <<"node", "pve2">>,
     <<"cores", 0>>, <<"cores", 4>>, <<"memory", 1024>>,
     <<"disks", ("scsi0" :> DiskSpec(DefaultRootfsGB))>>,
     <<"disks", EmptyDict>>,
     <<"disk_size", <<"3", "2", "g">> >>,
     <<"networks", ("net0" :> "e1000,bridge=vmbr1")>>,
     <<"network", "virtio,bridge=vmbr2">>,
     <<"user", "admin">>}

\* the arguments with node given and at most two of the choices made
ArgsFrom(choices) ==
    LET base == ("node" :> "pve")
        one == {(c[1] :> c[2]) @@ base : c \in choices}
    IN {base} \cup one \cup {(c[1] :> c[2]) @@ a : c \in choices, a \in one}

LxcArgsSet == ArgsFrom(LxcArgChoices)

VmArgsSet == ArgsFrom(VmArgChoices)

----------------------------------------------------------------------------
(* LXCContainerProvider.create / VirtualMachineProvider.create and         *)
(* ProxmoxAPI.create_lxc / create_vm / start_lxc.                          *)

\* f"lxc-{vm_id}" and f"vm-{vm_id}" for the ids of the model
DefaultName ==
    (200 :> "lxc-200") @@ (215 :> "lxc-215") @@ (100 :> "vm-100")
    @@ (101 :> "vm-101")

\* props.get("vm_id") or 200 / or 100
VmIdOf(p, dflt) == IntOr(p, "vm_id", dflt)

\* the provider's call of create_lxc (proxmox_lxc.py lines 95-113) and the
\* body create_lxc builds from it (proxmox_api.py lines 194-230)
CreateLxcParams(p) ==
    LET vm_id == VmIdOf(p, DefaultLxcId) IN
    [vmid |-> vm_id,
     cores |-> Default(p, "cores", DefaultCores),
     memory |-> Default(p, "memory", DefaultMemory),
     swap |-> Default(p, "swap", DefaultSwap),
     hostname |-> Default(p, "hostname", DefaultName[vm_id]),
     unprivileged |-> IF Default(p, "unprivileged", TRUE) THEN 1 ELSE 0]
    @@ Opt("ostemplate", p) @@ Opt("password", p)
    @@ (IF "ssh_public_keys" \in DOMAIN p
        THEN ("ssh-public-keys" :> p["ssh_public_keys"]) ELSE EmptyDict)
    @@ Default(p, "disks", EmptyDict)
    @@ Default(p, "networks", EmptyDict)
    @@ (IF Default(p, "features", <<>>) # <<>>
        THEN ("features" :> FeaturesStr(p["features"])) ELSE EmptyDict)
    @@ Opt("startup", p)
    @@ (IF "onboot" \in DOMAIN p
        THEN ("onboot" :> IF p["onboot"] THEN 1 ELSE 0) ELSE EmptyDict)

\* the provider's call of create_vm (proxmox_vm_qemu.py lines 84-94) and
\* the body create_vm builds from it (proxmox_api.py lines 112-125)
CreateVmParams(p) ==
    LET vm_id == VmIdOf(p, DefaultVmId) IN
    [vmid |-> vm_id,
     cores |-> Default(p, "cores", DefaultCores),
     memory |-> Default(p, "memory", DefaultMemory),
     name |-> Default(p, "name", DefaultName[vm_id])]
    @@ Default(p, "disks", EmptyDict)
    @@ Default(p, "networks", EmptyDict)

\* variant: the container is started whatever start_on_create says
StartWantedMut(p) == TRUE
\* proxmox_lxc.py line 116: if props.get("start_on_create", True)
StartWanted(p) == Default(p, "start_on_create", TRUE)

\* proxmox_lxc.py lines 132-149
CreateLxcOuts(p, status) ==
    LET vm_id == VmIdOf(p, DefaultLxcId) IN
    [vm_id |-> vm_id, node |-> p["node"],
     hostname |-> Default(p, "hostname", DefaultName[vm_id]),
     status |-> status,
     cores |-> Default(p, "cores", DefaultCores),
     memory |-> Default(p, "memory", DefaultMemory),
     swap |-> Default(p, "swap", DefaultSwap),
     disks |-> Default(p, "disks", EmptyDict),
     networks |-> Default(p, "networks", EmptyDict),
     unprivileged |-> Default(p, "unprivileged", TRUE)]
    @@ Opt("proxmox_endpoint", p) @@ Opt("proxmox_node", p)

\* proxmox_vm_qemu.py lines 102-117
CreateVmOuts(p, status) ==
    LET vm_id == VmIdOf(p, DefaultVmId) IN
    [vm_id |-> vm_id, node |-> p["node"],
     name |-> Default(p, "name", DefaultName[vm_id]),
     status |-> status,
     cores |-> Default(p, "cores", DefaultCores),
     memory |-> Default(p, "memory", DefaultMemory),
     disks |-> Default(p, "disks", EmptyDict),
     networks |-> Default(p, "networks", EmptyDict)]
    @@ Opt("proxmox_endpoint", p) @@ Opt("proxmox_node", p)
    @@ Opt("proxmox_insecure", p)

\* variant: a failed create request is logged and create goes on
AfterCreateMut(o, p, ok) ==
    IF o = "create_lxc" /\ StartWanted(p) THEN "C_start" ELSE "C_status"
\* where create goes on after the create request: its failure is raised
\* (proxmox_lxc.py lines 154-156); a container is then started when
\* start_on_create says so (line 116), a virtual machine never
AfterCreate(o, p, ok) ==
    IF ~ok THEN "done"
    ELSE IF o = "create_lxc" /\ StartWanted(p) THEN "C_start"
    ELSE "C_status"

CreFrame ==
    UNCHANGED <<wait, attempt, wait_time, backoffLog, delHist, old_props,
                new_props, update_params, disksTodo, prior>>

\* a container is declared and the provider's create is called with its props
CreateLxcEnter ==
    /\ pc = "idle"
    /\ \E a \in LxcArgsSet :
         /\ args' = a
         /\ props' = LxcProps(a)
    /\ op' = "create_lxc"
    /\ pc' = "C_create"
    /\ UNCHANGED <<ticket, csrf_token, calls, lastEvent, result, requests,
                   outs, readBack, created>>
    /\ CreFrame

\* a virtual machine is declared and the provider's create is called
CreateVmEnter ==
    /\ pc = "idle"
    /\ \E a \in VmArgsSet :
         /\ args' = a
         /\ props' = VmProps(a)
    /\ op' = "create_vm"
    /\ pc' = "C_create"
    /\ UNCHANGED <<ticket, csrf_token, calls, lastEvent, result, requests,
                   outs, readBack, created>>
    /\ CreFrame

\* ProxmoxAPI.__init__ line 35 with the node the provider passes (line 92):
\* self.node = node or "pve", the node of the paths nodes/{self.node}/...
ClientNode(p) ==
    IF "proxmox_node" \in DOMAIN p /\ p["proxmox_node"] # ""
    THEN p["proxmox_node"] ELSE "pve"

\* the program declares one more resource after a create that returned:
\* the provider's create is called for it, with a new client
CreateAnother ==
    /\ pc = "done"
    /\ op \in {"create_lxc", "create_vm"}
    /\ result = "ok"
    /\ Cardinality(created) < MaxResources - 1
    /\ created' = created \cup {requests[i].body["vmid"] :
                                   i \in {j \in 1..Len(requests) :
                                            /\ requests[j].kind = "create"
                                            /\ requests[j].ok}}
    /\ \/ /\ op' = "create_lxc"
          /\ \E a \in LxcArgsSet : args' = a /\ props' = LxcProps(a)
       \/ /\ op' = "create_vm"
          /\ \E a \in VmArgsSet : args' = a /\ props' = VmProps(a)
    /\ pc' = "C_create"
    /\ ticket' = FALSE
    /\ csrf_token' = FALSE
    /\ calls' = NoCalls
    /\ lastEvent' = "none"
    /\ result' = "none"
    /\ requests' = <<>>
    /\ outs' = EmptyDict
    /\ readBack' = "none"
    /\ CreFrame

\* the create request: POST nodes/{node}/lxc or nodes/{node}/qemu
CreateCall ==
    /\ pc = "C_create"
    /\ LET body == IF op = "create_lxc" THEN CreateLxcParams(props)
                   ELSE CreateVmParams(props)
       IN \E a \in AuthChoices, r \in PlainReplies :
            LET q == MakeRequest(a, r) IN
            /\ Sent("create", q)
            /\ lastEvent' = EventOf("create", q)
            /\ requests' =
                   IF q.sent
                   THEN Append(requests,
                               [kind |-> "create", body |-> body, ok |-> q.ok,
                                node |-> ClientNode(props)])
                   ELSE requests
            /\ pc' = AfterCreate(op, props, q.ok)
            /\ result' = IF pc' = "done" THEN "raised" ELSE result
    /\ UNCHANGED <<op, outs, readBack, creVars>>
    /\ CreFrame

\* proxmox_lxc.py lines 117-127: start_lxc, then time.sleep(3); a failure
\* of the start request is logged and create goes on
CreateStart ==
    /\ pc = "C_start"
    /\ \E a \in AuthChoices, r \in PlainReplies :
         LET q == MakeRequest(a, r) IN
         /\ Sent("start", q)
         /\ lastEvent' = IF q.ok THEN "sleep" ELSE EventOf("start", q)
         /\ requests' =
                IF q.sent
                THEN Append(requests,
                            [kind |-> "start", body |-> EmptyDict, ok |-> q.ok])
                ELSE requests
    /\ pc' = "C_status"
    /\ UNCHANGED <<op, result, outs, readBack, creVars>>
    /\ CreFrame

\* proxmox_lxc.py lines 130-152 / proxmox_vm_qemu.py lines 100-120: read
\* the status back and return the outputs
CreateReadStatus ==
    /\ pc = "C_status"
    /\ \E a \in AuthChoices, r \in StatusReplies :
         LET q == MakeRequest(a, r) IN
         /\ Sent("get", q)
         /\ lastEvent' = EventOf("get", q)
         /\ readBack' = IF q.sent /\ q.ok THEN q.status ELSE "failed"
         /\ result' = ReadBack(q).result
         /\ outs' = IF ReadBack(q).result # "ok" THEN outs
                    ELSE IF op = "create_lxc"
                    THEN CreateLxcOuts(props, ReadBack(q).status)
                    ELSE CreateVmOuts(props, ReadBack(q).status)
    /\ pc' = "done"
    /\ UNCHANGED <<op, requests, creVars>>
    /\ CreFrame

----------------------------------------------------------------------------

Init ==
    /\ op = "none"
    /\ pc = "idle"
    /\ ticket = FALSE
    /\ csrf_token = FALSE
    /\ calls = NoCalls
    /\ lastEvent = "none"
    /\ wait = NoWait
    /\ attempt = 0
    /\ wait_time = 0
    /\ backoffLog = <<>>
    /\ delHist = NoHist
    /\ result = "none"
    /\ old_props = EmptyDict
    /\ new_props = EmptyDict
    /\ update_params = EmptyDict
    /\ disksTodo = <<>>
    /\ requests = <<>>
    /\ outs = EmptyDict
    /\ readBack = "none"
    /\ args = EmptyDict
    /\ props = EmptyDict
    /\ prior = {}
    /\ created = {}

\* VirtualMachineProvider.delete (lines 169-189): a new client, then
\* delete_vm
DeleteVmStart ==
    /\ pc = "idle"
    /\ op' = "delete_vm"
    /\ pc' = "DV_stop"
    /\ UNCHANGED <<ticket, csrf_token, calls, lastEvent, wait, attempt,
                   wait_time, backoffLog, delHist, result, updVars, creVars>>

\* delete_vm lines 173-177: the stop request, sent without a status read;
\* its failure is logged
DeleteVmStop ==
    /\ pc = "DV_stop"
    /\ \E a \in AuthChoices, r \in PlainReplies :
         LET q == MakeRequest(a, r) IN
         /\ Sent("stop", q)
         /\ lastEvent' = EventOf("stop", q)
    /\ pc' = "DV_delete"
    /\ UNCHANGED <<op, wait, attempt, wait_time, backoffLog, delHist, result,
                   updVars, creVars>>

\* delete_vm lines 179-181: one DELETE request; its failure is raised
DeleteVmDelete ==
    /\ pc = "DV_delete"
    /\ \E a \in AuthChoices, r \in PlainReplies :
         LET q == MakeRequest(a, r) IN
         /\ Sent("delete", q)
         /\ lastEvent' = EventOf("delete", q)
         /\ result' = IF q.ok THEN "ok" ELSE "raised"
         /\ delHist' = IF q.ok THEN [delHist EXCEPT !.lastDel = "ok"]
                       ELSE Failed(delHist, q.msg)
    /\ pc' = "done"
    /\ UNCHANGED <<op, wait, attempt, wait_time, backoffLog, updVars, creVars>>

Next ==
    \/ DeleteLxcStart
    \/ DeleteReadStatus
    \/ DeleteStop
    \/ DeleteShutdown
    \/ DeleteUnlockAgain
    \/ DeleteAttempt
    \/ DeleteRecheck
    \/ DeleteReshutdown
    \/ DeleteBackoff
    \/ WaitAloneStart
    \/ WaitUnlockPoll
    \/ WaitStopPoll
    \/ WaitExhausted

Spec == Init /\ [][Next]_vars

\* delete and the wait primitives under the scheduling of the code: the
\* client is sequential and every request returns or fails, so a step that
\* can be taken is taken
SpecFair == Init /\ [][Next]_vars /\ WF_vars(Next)

\* the update operations of the two providers
NextUpdate ==
    \/ UpdateLxcStart
    \/ UpdateVmStart
    \/ UpdateResizeDisk
    \/ UpdateLxcConfig
    \/ UpdateVmConfig
    \/ UpdateReadStatus

SpecUpdate == Init /\ [][NextUpdate]_vars

\* updates, and the update repeated after one that lost a resize
NextReupdate ==
    \/ NextUpdate
    \/ UpdateAgain

SpecReupdate == Init /\ [][NextReupdate]_vars

\* the create operations of the two providers
NextCreate ==
    \/ CreateLxcEnter
    \/ CreateVmEnter
    \/ CreateCall
    \/ CreateStart
    \/ CreateReadStatus

SpecCreate == Init /\ [][NextCreate]_vars

\* creates of several resources, one after the other
NextCreates ==
    \/ NextCreate
    \/ CreateAnother

SpecCreates == Init /\ [][NextCreates]_vars

\* the delete of a virtual machine
NextDeleteVm ==
    \/ DeleteVmStart
    \/ DeleteVmStop
    \/ DeleteVmDelete

\* every operation of the providers: create, update and delete
NextProvider ==
    \/ NextCreate
    \/ NextUpdate
    \/ Next
    \/ NextDeleteVm

SpecProvider == Init /\ [][NextProvider]_vars

----------------------------------------------------------------------------
(* Properties of delete_lxc and of the wait primitives.                    *)

RECURSIVE SumSeq(_)
SumSeq(s) == IF s = <<>> THEN 0 ELSE Head(s) + SumSeq(Tail(s))

\* C1: whatever the remote answers, a container delete sends at most 10
\* DELETE requests.
C1_AtMostTenDeletes ==
    op = "delete_lxc" => calls.delete <= 10 /\ delHist.fails <= 10

C1_Witness ==
    op = "delete_lxc" /\ calls.delete = 10

\* C2: delete returns normally only if a DELETE request succeeded; when all
\* 10 attempts fail with retryable errors the 10th failure is raised, the
\* fallback return is never reached and no backoff follows the 10th failure.
C2_ReturnsOnlyAfterSuccess ==
    op = "delete_lxc" =>
        /\ result = "ok" => delHist.lastDel = "ok" /\ calls.delete >= 1
        /\ result # "fallback"
        /\ (delHist.fails = 10 /\ delHist.lastDel = "retryable") =>
               /\ pc = "done"
               /\ result = "raised"
               /\ lastEvent = "delete"
               /\ Len(backoffLog) = 9

C2_Witness ==
    /\ op = "delete_lxc"
    /\ delHist.fails = 10
    /\ delHist.lastDel = "retryable"
    /\ result = "raised"

\* C3: a DELETE attempt that fails with an error holding none of the
\* markers lock / timeout / container is running ends delete at once with
\* that error: the failed attempt is the last event, and no status
\* re-check, shutdown call, backoff or further DELETE follows it.
C3_FatalFailureRaisesAtOnce ==
    (op = "delete_lxc" /\ delHist.lastDel = "fatal") =>
        /\ pc = "done"
        /\ result = "raised"
        /\ lastEvent \in {"delete", "auth"}
        /\ delHist.fails = attempt + 1
        /\ Len(backoffLog) = attempt

C3_Witness ==
    /\ op = "delete_lxc"
    /\ delHist.lastDel = "fatal"
    /\ attempt = 4
    /\ result = "raised"

\* C4: the backoff slept after the k-th failed DELETE attempt is 3k seconds
\* (k = 1..9), and DELETE attempt k+1 is issued right after that sleep.
C4_BackoffIsThreeK ==
    op = "delete_lxc" =>
        /\ \A k \in 1..Len(backoffLog) : backoffLog[k] = 3 * k
        /\ Len(backoffLog) <= 9
        /\ pc = "D_delete" =>
               /\ Len(backoffLog) = attempt
               /\ delHist.fails = attempt
               /\ attempt >= 1 => lastEvent = "backoff"

C4_Witness ==
    /\ op = "delete_lxc"
    /\ pc = "D_delete"
    /\ attempt = 9
    /\ Len(backoffLog) = 9

\* C5: when every status read reports running and DELETE fails with
\* "container is running" on attempts 1..9 and succeeds on attempt 10,
\* delete returns success after exactly 10 DELETE calls and 135 s of backoff;
\* and while only such answers come, delete does not raise.
C5_ScenarioTenthAttemptSucceeds ==
    (op = "delete_lxc" /\ delHist.allRunning /\ delHist.allFailsRunning) =>
        /\ delHist.fails <= 9 => result \in {"none", "ok"}
        /\ (pc = "done" /\ delHist.fails = 9 /\ delHist.lastDel = "ok") =>
               /\ result = "ok"
               /\ calls.delete = 10
               /\ SumSeq(backoffLog) = 135

C5_Witness ==
    /\ op = "delete_lxc"
    /\ delHist.allRunning
    /\ delHist.allFailsRunning
    /\ pc = "done"
    /\ delHist.fails = 9
    /\ delHist.lastDel = "ok"
    /\ calls.shutdown = 10

\* C6: _wait_for_lxc_stop returns True exactly when a read reports
\* "stopped", at the first such read; otherwise it returns False after
\* exactly max_retries reads, a failed read and a read with another status
\* each using up one attempt.
C6_WaitForStop ==
    wait.kind = "stop" =>
        /\ wait.reads <= wait.max_retries
        /\ ~wait.done => wait.allAgain /\ wait.reads = wait.attempt
        /\ (wait.done /\ wait.res) => wait.last = "stopped"
        /\ (wait.done /\ ~wait.res) =>
               wait.allAgain /\ wait.reads = wait.max_retries
        /\ (wait.done /\ wait.last = "stopped") => wait.res

C6_Witness ==
    /\ wait.kind = "stop"
    /\ wait.done
    /\ ~wait.res
    /\ wait.reads = 60
    /\ wait.last = "err_other"

\* C7: _wait_for_lxc_unlock returns True at the first successful read and
\* at the first read failing with an error that is neither timeout nor lock;
\* it keeps polling after a timeout or lock failure; it returns False
\* exactly when all max_retries reads failed with timeout or lock errors.
C7_WaitForUnlock ==
    wait.kind = "unlock" =>
        /\ wait.reads <= wait.max_retries
        /\ ~wait.done => wait.allAgain /\ wait.reads = wait.attempt
        /\ (wait.done /\ wait.res) =>
               /\ wait.reads >= 1
               /\ wait.last \in Statuses \cup {"err_other"}
        /\ (wait.done /\ ~wait.res) =>
               wait.allAgain /\ wait.reads = wait.max_retries
        /\ (wait.done /\ wait.allAgain) => ~wait.res
        /\ (pc = "W_unlock" /\ wait.reads < wait.max_retries) => ~wait.done

C7_Witness ==
    /\ wait.kind = "unlock"
    /\ wait.done
    /\ wait.res
    /\ wait.reads = 30
    /\ wait.last = "err_other"

----------------------------------------------------------------------------
(* Properties of update.                                                   *)

Updating == op \in {"update_lxc", "update_vm"}

\* C8 as stated: for equal descriptors update makes no network call at all
\* (no authentication, no status read, no config-update, no resize).
C8_NoNetworkCallAtAll ==
    (Updating /\ old_props = new_props) => calls = NoCalls

\* C8 as amended: for equal descriptors update sends no config-update and
\* no resize request; its only network traffic is the status read-back at
\* the end, one authentication and at most one status read.
C8_NoUpdateCallOnlyStatusRead ==
    (Updating /\ old_props = new_props) =>
        /\ update_params = EmptyDict
        /\ requests = <<>>
        /\ calls.config = 0 /\ calls.resize = 0
        /\ calls.get <= 1 /\ calls.auth <= 1
        /\ pc = "done" =>
               /\ result = "ok"
               /\ calls.auth = 1
               /\ calls.get = 1 <=> csrf_token

C8_Witness ==
    /\ op = "update_lxc"
    /\ old_props = new_props
    /\ "mp0" \in DOMAIN new_props["disks"]
    /\ pc = "done"
    /\ calls.get = 1

\* a well-formed disk spec "<storage>:<sizeGB>" with a positive size
WellFormedSpec(spec) == \E n \in Sizes \ {0} : spec = DiskSpec(n)

SizeOf(spec) == CHOOSE n \in Sizes \ {0} : spec = DiskSpec(n)

\* old and new differ only in the size of disks["rootfs"]
DiffersOnlyInRootfsSize(old, new) ==
    /\ DOMAIN old = DOMAIN new
    /\ \A k \in DOMAIN old \ {"disks"} : old[k] = new[k]
    /\ "disks" \in DOMAIN old
    /\ DOMAIN old["disks"] = DOMAIN new["disks"]
    /\ "rootfs" \in DOMAIN old["disks"]
    /\ \A d \in DOMAIN old["disks"] \ {"rootfs"} :
           old["disks"][d] = new["disks"][d]
    /\ WellFormedSpec(old["disks"]["rootfs"])
    /\ WellFormedSpec(new["disks"]["rootfs"])
    /\ old["disks"]["rootfs"] # new["disks"]["rootfs"]

RequestsOfKind(kind) ==
    {i \in 1..Len(requests) : requests[i].kind = kind}

\* C9: when old and new differ only in the size of disks["rootfs"], a
\* container update whose first authentication succeeded has sent, when it
\* returns, exactly one resize request, for slot rootfs with the new size,
\* and no config-update request.
C9_ExactlyOneResizeForRootfs ==
    (/\ op = "update_lxc"
     /\ DiffersOnlyInRootfsSize(old_props, new_props)
     /\ pc = "done"
     /\ csrf_token /\ calls.auth = 1) =>
        /\ RequestsOfKind("config") = {}
        /\ Cardinality(RequestsOfKind("resize")) = 1
        /\ \A i \in RequestsOfKind("resize") :
               requests[i].body =
                   [disk |-> "rootfs",
                    size |-> Decimal(SizeOf(new_props["disks"]["rootfs"]))
                             \o <<"G">>]

\* C10: no config-update request sent by update, for a container or for a
\* VM, carries a disk-slot field.
C10_NoDiskFieldInConfigUpdate ==
    Updating =>
        \A i \in RequestsOfKind("config") :
            DOMAIN requests[i].body \cap DiskSlots = {}

\* the mutable fields the running update compares
FieldsOf(o) == IF o = "update_vm" THEN Range(VmFields) ELSE Range(LxcFields)

\* the fields of a set that differ between two descriptors: held by one
\* only, or held by both with different values
DiffFields(old, new, fields) ==
    {f \in fields :
        \/ (f \in DOMAIN old) # (f \in DOMAIN new)
        \/ f \in DOMAIN old \cap DOMAIN new /\ old[f] # new[f]}

NonDiskDiff == DiffFields(old_props, new_props, Range(LxcFields) \ {"disks"})

\* does a request body carry the new value of field f: each interface of
\* networks under its own key, any other field under the field's key
Carries(body, new, f) ==
    IF f = "networks"
    THEN \A k \in DOMAIN new[f] : k \in DOMAIN body /\ body[k] = new[f][k]
    ELSE f \in DOMAIN body

\* C11: a container update that returns, with at least one non-disk mutable
\* field differing between old and new, has sent exactly one config-update
\* request, whose body carries every changed field, also one whose new
\* value is empty.
C11_OneConfigCallCarriesAllChanges ==
    (/\ op = "update_lxc"
     /\ pc = "done"
     /\ result = "ok"
     /\ NonDiskDiff # {}) =>
        /\ Cardinality(RequestsOfKind("config")) = 1
        /\ \A i \in RequestsOfKind("config") :
               \A f \in NonDiskDiff : Carries(requests[i].body, new_props, f)

\* the keys under which a field travels in a config request
KeysOf(new, f) ==
    IF f \in {"networks", "disks"}
    THEN IF f \in DOMAIN new THEN DOMAIN new[f] ELSE {}
    ELSE {f}

\* C12: the body of a config-update request holds a mutable field only if
\* that field differs between old and new; when cores is the only field
\* that changed, an update that returns has sent exactly one request, the
\* config-update with body {cores: new value}, and no resize.
C12_BodyHoldsOnlyChangedFields ==
    Updating =>
        /\ \A i \in RequestsOfKind("config") :
               DOMAIN requests[i].body \subseteq
                   UNION {KeysOf(new_props, f) :
                            f \in DiffFields(old_props, new_props, FieldsOf(op))}
        /\ (/\ pc = "done"
            /\ result = "ok"
            /\ DiffFields(old_props, new_props, FieldsOf(op)) = {"cores"}) =>
               requests = <<[kind |-> "config",
                             body |-> ("cores" :> new_props["cores"]),
                             ok |-> TRUE]>>

C12_Witness ==
    /\ op = "update_lxc"
    /\ pc = "done"
    /\ result = "ok"
    /\ old_props["cores"] = 2
    /\ new_props["cores"] = 3
    /\ new_props["memory"] = 2024
    /\ DiffFields(old_props, new_props, FieldsOf(op)) = {"cores"}
    /\ Len(requests) = 1

\* position of a slot in the order the resize loop visits the slots
SlotIndex(slot) == CHOOSE i \in 1..Len(KeyOrder) : KeyOrder[i] = slot

\* the changed non-disk fields whose new value is not empty
Carried(old, new) ==
    {f \in DiffFields(old, new, Range(LxcFields) \ {"disks"}) :
        /\ f \in DOMAIN new
        /\ f = "features" => new[f] # <<>>
        /\ f = "networks" => DOMAIN new[f] # {}}

FailedResizes == {i \in RequestsOfKind("resize") : ~requests[i].ok}

\* C13: when a resize request failed during a container update, the resize
\* requests for the slots after it are still sent, then the config-update
\* request for the changed non-disk fields, and the update returns success
\* unless that config-update request itself fails.
C13_ResizeFailureIsTolerated ==
    (op = "update_lxc" /\ pc = "done" /\ FailedResizes # {}) =>
        /\ \A i \in FailedResizes :
             \A d \in DOMAIN new_props["disks"] :
                (/\ SlotIndex(d) > SlotIndex(requests[i].body.disk)
                 /\ WellFormedSpec(new_props["disks"][d])) =>
                    \E j \in RequestsOfKind("resize") :
                        j > i /\ requests[j].body.disk = d
        /\ Carried(old_props, new_props) # {} =>
               /\ RequestsOfKind("config") = {Len(requests)}
               /\ \A f \in Carried(old_props, new_props) :
                      Carries(requests[Len(requests)].body, new_props, f)
        /\ result = "ok" <=> \A i \in RequestsOfKind("config") : requests[i].ok

C13_Witness ==
    /\ op = "update_lxc"
    /\ pc = "done"
    /\ result = "ok"
    /\ Len(requests) = 3
    /\ requests[1].kind = "resize" /\ ~requests[1].ok
    /\ requests[2].kind = "resize" /\ requests[2].ok
    /\ requests[3].kind = "config"

----------------------------------------------------------------------------
(* Properties of authentication failures.                                  *)

\* the authentication attempts of the client that failed: every attempt
\* but a successful one, which leaves the CSRF token set and is the last
AuthFailures == calls.auth - (IF csrf_token THEN 1 ELSE 0)

\* C14: no create, update or delete returns success after one of its
\* authentication attempts failed.  The status read-back at the end is
\* left aside: the statement is about an operation whose read-back did not
\* fail.
C14_NoSuccessAfterAuthFailure ==
    (AuthFailures > 0 /\ readBack # "failed") => result # "ok"

----------------------------------------------------------------------------
(* Properties of create.                                                   *)

Creating == op \in {"create_lxc", "create_vm"}

\* the create request was answered with a failure, or could not be sent
\* because the authentication failed
CreateCallFailed ==
    /\ Creating
    /\ pc # "C_create"
    /\ requests = <<>> \/ ~requests[1].ok

\* C15: when the create request fails, create raises the failure; no start
\* request and no status read follow, and nothing is returned.
C15_CreateFailureIsRaised ==
    CreateCallFailed =>
        /\ pc = "done"
        /\ result = "raised"
        /\ calls.start = 0
        /\ calls.get = 0
        /\ readBack = "none"
        /\ Len(requests) <= 1
        /\ outs = EmptyDict

C15_Witness ==
    /\ op = "create_lxc"
    /\ "start_on_create" \in DOMAIN args
    /\ args["start_on_create"]
    /\ Len(requests) = 1
    /\ requests[1].kind = "create"
    /\ ~requests[1].ok
    /\ pc = "done"

\* startOnCreate as the caller declared it: true unless given as false
StartOnCreate ==
    "start_on_create" \notin DOMAIN args \/ args["start_on_create"]

CreateCallSucceeded ==
    /\ pc # "C_create"
    /\ requests # <<>>
    /\ requests[1].kind = "create"
    /\ requests[1].ok

FailedStarts == {i \in RequestsOfKind("start") : ~requests[i].ok}

\* C16: after a successful create request for a container, the start
\* request is sent exactly once if startOnCreate is true or not given and
\* never if it is false, and never without a successful create; when the
\* start request fails, create still reads the status back and returns
\* success.
C16_StartOnceWhenWanted ==
    op = "create_lxc" =>
        /\ Cardinality(RequestsOfKind("start")) = calls.start
        /\ calls.start > 0 => CreateCallSucceeded /\ StartOnCreate
        /\ (CreateCallSucceeded /\ pc # "C_start") =>
               calls.start = IF StartOnCreate THEN 1 ELSE 0
        /\ (FailedStarts # {} /\ pc = "done") =>
               /\ result = "ok"
               /\ readBack # "none"
               /\ "status" \in DOMAIN outs

C16_Witness ==
    /\ op = "create_lxc"
    /\ "start_on_create" \notin DOMAIN args
    /\ FailedStarts # {}
    /\ pc = "done"
    /\ result = "ok"
    /\ readBack = "stopped"

\* C17: when the status read-back at the end of create or update fails, the
\* operation still succeeds and the returned state has status "unknown".
C17_FailedReadBackGivesUnknown ==
    ((Creating \/ Updating) /\ pc = "done" /\ readBack = "failed") =>
        /\ result = "ok"
        /\ "status" \in DOMAIN outs
        /\ outs["status"] = "unknown"

C17_Witness ==
    /\ op = "create_lxc"
    /\ pc = "done"
    /\ readBack = "failed"
    /\ calls.start = 1
    /\ calls.get = 1
    /\ outs["status"] = "unknown"

\* the caller gave neither disks nor networks nor the legacy arguments
NoDisksNoNetworks ==
    DOMAIN args \cap {"disks", "disk_size", "networks", "network"} = {}

\* C18: when the caller gives no disks, no networks and no legacy
\* disk_size / network, the create request of a container carries
\* rootfs = "local-lvm:8" and net0 = "name=eth0,bridge=vmbr0,ip=dhcp", that
\* of a virtual machine scsi0 = "local-lvm:20" and net0 =
\* "virtio,bridge=vmbr0"; the request is sent once the client has
\* authenticated.
C18_DefaultDisksAndNetworks ==
    (Creating /\ NoDisksNoNetworks) =>
        /\ (pc # "C_create" /\ csrf_token) => RequestsOfKind("create") = {1}
        /\ \A i \in RequestsOfKind("create") :
             LET body == requests[i].body IN
             IF op = "create_lxc"
             THEN /\ {"rootfs", "net0"} \subseteq DOMAIN body
                  /\ body["rootfs"] =
                       <<"l", "o", "c", "a", "l", "-", "l", "v", "m", ":", "8">>
                  /\ body["net0"] = "name=eth0,bridge=vmbr0,ip=dhcp"
             ELSE /\ {"scsi0", "net0"} \subseteq DOMAIN body
                  /\ body["scsi0"] =
                       <<"l", "o", "c", "a", "l", "-", "l", "v", "m", ":",
                         "2", "0">>
                  /\ body["net0"] = "virtio,bridge=vmbr0"

C18_Witness ==
    /\ op = "create_vm"
    /\ DOMAIN args = {"node"}
    /\ pc = "done"
    /\ result = "ok"
    /\ requests[1].kind = "create"
    /\ requests[1].ok

----------------------------------------------------------------------------
(* Termination of delete.                                                  *)

\* the polls of one wait call and the DELETE requests are bounded
DeleteIsBounded ==
    op = "delete_lxc" =>
        /\ wait.reads <= wait.max_retries
        /\ wait.max_retries <= StopRetriesGraceful
        /\ attempt < max_delete_retries
        /\ calls.delete <= max_delete_retries
        /\ calls.stop <= 1
        /\ calls.shutdown <= max_delete_retries

\* C19: when every request returns or fails, every container delete ends:
\* after a bounded number of status polls and at most 10 DELETE requests it
\* returns success or raises.
C19_DeleteTerminates ==
    /\ []DeleteIsBounded
    /\ (op = "delete_lxc") ~> (pc = "done" /\ result \in {"ok", "raised"})

C19_Witness ==
    /\ op = "delete_lxc"
    /\ pc = "done"
    /\ result = "ok"
    /\ calls.stop = 1
    /\ calls.shutdown = max_delete_retries
    /\ calls.delete = max_delete_retries
    /\ wait.kind = "none"

----------------------------------------------------------------------------
(* Properties of the state update returns.                                 *)

\* C20: in the state a container update returns, a disk slot whose resize
\* request failed keeps the value it had in old, not the desired one.
C20_FailedResizeKeepsOldValue ==
    (op = "update_lxc" /\ pc = "done" /\ result = "ok") =>
        \A i \in FailedResizes :
            LET d == requests[i].body.disk IN
            d \in DOMAIN old_props["disks"] =>
                /\ d \in DOMAIN outs["disks"]
                /\ outs["disks"][d] = old_props["disks"][d]

\* the size segment of spec is a positive integer
PositiveSize(spec) ==
    LET colon == FirstColon(spec)
        seg == SubSeq(spec, colon + 1, Len(spec))
    IN /\ colon # 0
       /\ seg # <<>>
       /\ \A k \in 1..Len(seg) : IsDigitChar(seg[k])
       /\ \E k \in 1..Len(seg) : seg[k] # "0"

\* C21: when the resize of a changed slot to a well-formed size failed
\* during an update and update is called again with the returned state as
\* old and the same desired descriptor, every request now being accepted,
\* the repeated update has sent a resize request for that slot when it
\* returns.
C21_LostResizeIsIssuedAgain ==
    (/\ op = "update_lxc"
     /\ prior # {}
     /\ pc = "done"
     /\ result = "ok"
     /\ calls.auth = 1 /\ csrf_token
     /\ \A i \in 1..Len(requests) : requests[i].ok) =>
        \A s \in prior :
            PositiveSize(new_props["disks"][s]) =>
                \E i \in RequestsOfKind("resize") : requests[i].body.disk = s

\* ---------------------------------------------------------------------
\* Which slots are resized
\* ---------------------------------------------------------------------

\* C22: a container update sends a resize request for a disk slot only if
\* the spec of that slot differs between old and new.
C22_ResizeOnlyForChangedSlots ==
    op = "update_lxc" =>
        \A i \in RequestsOfKind("resize") :
            SlotSpec(old_props, requests[i].body.disk)
                # SlotSpec(new_props, requests[i].body.disk)

\* C23: no resize request is sent for a slot whose spec has a size segment
\* that is not a positive integer (size 0, a non-numeric size, no ':').
C23_NoResizeForBadSize ==
    op = "update_lxc" =>
        \A i \in RequestsOfKind("resize") :
            PositiveSize(new_props["disks"][requests[i].body.disk])

\* C30: the id and the node in the state an update returns are those of
\* old, also when new names another id or another node.
C30_IdAndNodeStayThoseOfOld ==
    (Updating /\ pc = "done" /\ result = "ok") =>
        /\ Get(outs, "vm_id") = Get(old_props, "vm_id")
        /\ Get(outs, "node") = Get(old_props, "node")

\* ---------------------------------------------------------------------
\* Order of the steps of delete_lxc
\* ---------------------------------------------------------------------

\* the step sends a stop, resp. a shutdown request
StopIsSent == calls'.stop # calls.stop
ShutdownIsSent == calls'.shutdown # calls.shutdown
\* the step is a DELETE attempt (whether the request went out or not)
DeleteIsTried ==
    \/ delHist'.fails # delHist.fails
    \/ delHist'.lastDel = "ok" /\ delHist.lastDel # "ok"

\* C24: in delete_lxc the stop call is issued only right after the status
\* read that follows the first wait for unlock, and only if that read
\* reported running; the forced shutdown before the delete loop is issued
\* only after that stop call and only when the 60-poll wait for stop has
\* returned false; and the first DELETE is attempted only when a second
\* wait for unlock, started after the last stop / shutdown call and stop
\* wait, has returned.
C24_StepsOfDeleteInOrder ==
    [][op = "delete_lxc" =>
        /\ StopIsSent =>
               /\ delHist.first = "running"
               /\ delHist.unlocks = 1
               /\ lastEvent = "get"
               /\ calls.stop = 0 /\ calls.shutdown = 0
        /\ (ShutdownIsSent /\ delHist.lastDel = "none") =>
               /\ calls.stop = 1
               /\ calls.shutdown = 0
               /\ delHist.unlocks = 1
               /\ wait.kind = "stop" /\ wait.max_retries = 60
               /\ wait.done /\ ~wait.res
        /\ (DeleteIsTried /\ delHist.lastDel = "none") =>
               /\ delHist.unlocks = 2
               /\ wait.kind = "unlock" /\ wait.done
               /\ lastEvent \notin {"stop", "shutdown", "get"}
        /\ delHist'.unlocks <= 2
    ]_vars

C24_Witness ==
    /\ op = "delete_lxc"
    /\ calls.stop = 1
    /\ calls.shutdown = 1
    /\ delHist.unlocks = 2
    /\ delHist.fails = 0
    /\ delHist.lastDel = "ok"

\* C25: whatever the first wait for unlock, the status read, the stop
\* call, the waits for stop and the forced shutdown return or raise,
\* delete_lxc goes on to the DELETE step: every delete reaches a first
\* DELETE attempt, and that attempt sends the DELETE request unless the
\* client holds no session and the authentication in front of it fails.
C25_DeleteStepIsAlwaysReached ==
    /\ (op = "delete_lxc") ~> (delHist.lastDel # "none")
    /\ [](op = "delete_lxc" /\ delHist.lastDel # "none" /\ calls.delete = 0 =>
             /\ lastEvent = "auth"
             /\ ~csrf_token
             /\ result = "raised")
    /\ [](op = "delete_lxc" /\ pc = "done" => delHist.lastDel # "none")

C25_Witness ==
    /\ op = "delete_lxc"
    /\ delHist.first = "other"
    /\ calls.auth >= 2
    /\ calls.stop = 0
    /\ calls.delete = 1
    /\ delHist.lastDel = "ok"

\* C26 (as the code does it): after a DELETE attempt failed retryably with
\* attempts left, delete_lxc first reads the status again, then, only if
\* that read reported running, sends the shutdown again followed (when the
\* shutdown call succeeded) by a 15-poll wait for stop, then sleeps the
\* backoff, and the next DELETE attempt follows that sleep directly.
C26_RecheckThenBackoffThenRetry ==
    [][op = "delete_lxc" =>
        /\ (ShutdownIsSent /\ delHist.lastDel # "none") =>
               /\ delHist.recheck = "running"
               /\ lastEvent = "get"
               /\ Len(backoffLog) = delHist.fails - 1
        /\ (wait'.kind = "stop" /\ wait'.max_retries = 15 /\ wait'.reads = 0) =>
               /\ ShutdownIsSent
               /\ lastEvent' = "shutdown"
        /\ Len(backoffLog') # Len(backoffLog) =>
               /\ delHist.lastDel = "retryable"
               /\ delHist.fails <= 9
               /\ Len(backoffLog) = delHist.fails - 1
               /\ delHist.recheck # "none"
               /\ delHist.recheck = "running" =>
                      \/ lastEvent = "shutdown"
                      \/ wait.kind = "stop" /\ wait.max_retries = 15 /\ wait.done
               /\ delHist.recheck = "other" => lastEvent \in {"get", "auth"}
        /\ (DeleteIsTried /\ delHist.lastDel # "none") =>
               /\ lastEvent = "backoff"
               /\ Len(backoffLog) = delHist.fails
    ]_vars

C26_Witness ==
    /\ op = "delete_lxc"
    /\ lastEvent = "backoff"
    /\ delHist.recheck = "running"
    /\ calls.shutdown = 2
    /\ delHist.fails = 2
    /\ backoffLog = <<3, 6>>

\* C26 (as stated): the backoff is slept first and the status is read again
\* after it, so that by the time of the re-check the backoff of the failed
\* attempt has been slept.
C26_BackoffThenRecheck ==
    (op = "delete_lxc" /\ delHist.recheck # "none") =>
        Len(backoffLog) = delHist.fails

\* C27 (as the code does it): when every DELETE attempt fails retryably,
\* the backoffs slept are 3, 6, ..., 27 seconds, 135 seconds in all, and the
\* tenth failure is raised with no sleep after it.
C27_BackoffsSumTo135 ==
    (op = "delete_lxc" /\ delHist.fails = 10 /\ delHist.lastDel = "retryable") =>
        /\ backoffLog = [k \in 1..9 |-> 3 * k]
        /\ SumSeq(backoffLog) = 135
        /\ result = "raised"
        /\ lastEvent \in {"delete", "auth"}

C27_Witness ==
    /\ op = "delete_lxc"
    /\ delHist.fails = 10
    /\ delHist.lastDel = "retryable"
    /\ ~delHist.allFailsRunning
    /\ calls.shutdown = 0
    /\ pc = "done"

\* C27 (as stated): the backoffs are 3, 6, ..., 30 seconds, 165 seconds in
\* all, before the failure is raised.
C27_BackoffsSumTo165 ==
    (op = "delete_lxc" /\ delHist.fails = 10 /\ delHist.lastDel = "retryable") =>
        /\ backoffLog = [k \in 1..10 |-> 3 * k]
        /\ SumSeq(backoffLog) = 165

\* ---------------------------------------------------------------------
\* Delete of a virtual machine
\* ---------------------------------------------------------------------

\* C28: the delete of a VM sends the stop request only after a status read
\* that reported running, and it raises a DELETE failure that holds a
\* retryable marker only when ten attempts have failed.
C28_VmDeleteChecksStatusAndRetries ==
    op = "delete_vm" =>
        /\ calls.stop >= 1 => (calls.get >= 1 /\ delHist.first = "running")
        /\ (result = "raised" /\ delHist.lastDel = "retryable") =>
               delHist.fails = 10

\* ---------------------------------------------------------------------
\* Session of the client
\* ---------------------------------------------------------------------

\* requests other than the authentication put on the wire so far
ResourceRequests ==
    calls.get + calls.stop + calls.shutdown + calls.delete + calls.config
    + calls.resize + calls.create + calls.start

\* C29: a client that holds no ticket has sent no resource request; a
\* step in which an authentication is sent and fails sends nothing else;
\* and a client that holds a ticket sends no authentication request.
C29_NoRequestWithoutTicket ==
    /\ [](~ticket => ResourceRequests = 0
                     /\ lastEvent \in {"none", "auth", "sleep"})
    /\ [][/\ ticket => calls'.auth = calls.auth
          /\ (calls'.auth # calls.auth /\ ~csrf_token') =>
                 /\ ResourceRequests' = ResourceRequests
                 /\ lastEvent' \in {"auth", "sleep"}
          /\ (~ticket /\ lastEvent' \notin {lastEvent, "auth", "sleep"}) =>
                 /\ calls'.auth = calls.auth + 1
                 /\ ticket']_vars

C29_Witness ==
    /\ calls.auth = 2
    /\ ticket
    /\ ResourceRequests >= 2
    /\ op = "update_lxc"

\* C34: a client holds a ticket only together with the anti-forgery token
\* of the same authentication: after an authentication that failed, also
\* by a reply with a ticket and no token, it holds no ticket, and every
\* resource request is sent by a client that holds both.
C34_TicketOnlyWithToken ==
    /\ ticket => csrf_token
    /\ lastEvent \notin {"none", "auth", "sleep", "backoff"} => csrf_token

\* ---------------------------------------------------------------------
\* What create sends and returns
\* ---------------------------------------------------------------------

\* C31: the create request of a resource is addressed to the node named
\* in the field node of its descriptor, the node the returned state
\* shows, also when the provider's node setting names another node.
C31_CallsAddressTheDescriptorNode ==
    Creating =>
        \A i \in RequestsOfKind("create") :
            /\ requests[i].node = args["node"]
            /\ (pc = "done" /\ result = "ok") => requests[i].node = outs["node"]

\* C33: a create for which the caller gave no id does not use the id of
\* a resource that an earlier create made on the node and that still
\* exists.
C33_CreateUsesAFreshId ==
    Creating =>
        \A i \in RequestsOfKind("create") :
            "vm_id" \notin DOMAIN args => requests[i].body["vmid"] \notin created

\* the value create is to send for an integer field: the caller's, or the
\* default when the caller gave none
Supplied(a, f, dflt) == IF f \in DOMAIN a THEN a[f] ELSE dflt

\* C32: the create request carries cores, memory and swap as the caller
\* supplied them, 0 included, and the defaults 1 / 512 / 512 only for a
\* field the caller left out.
C32_CreateCarriesSuppliedIntegers ==
    Creating =>
        \A i \in RequestsOfKind("create") :
            /\ requests[i].body["cores"] = Supplied(args, "cores", 1)
            /\ requests[i].body["memory"] = Supplied(args, "memory", 512)
            /\ op = "create_lxc" =>
                   requests[i].body["swap"] = Supplied(args, "swap", 512)

\* the connection parameters a client is built from
ConnectionKeys ==
    {"proxmox_endpoint", "proxmox_username", "proxmox_password",
     "proxmox_node", "proxmox_insecure"}

\* C35: the state create returns holds every connection parameter create
\* built its client from, with the same value.
C35_OutsCarryTheConnection ==
    (Creating /\ pc = "done" /\ result = "ok") =>
        \A k \in ConnectionKeys : Get(outs, k) = Get(props, k)

====
